---- MODULE Spec2Model ----
(***************************************************************************)
(* Model of server.py: the GET /fetch_data handler (fetch_data) and its    *)
(* helper filter_data.  A request takes two steps: it arrives and the view *)
(* blocks in requests.get; the call returns and the rest of the view runs. *)
(* The handler's locals (start_date .. sort_by) and its response are the   *)
(* state.  The view reads and writes nothing shared between requests       *)
(* (API_URL is set once at import), so one request is followed at a time.  *)
(***************************************************************************)
EXTENDS Integers, Sequences, FiniteSets, TLC

VARIABLES pc, args, upstream,
          start_date, end_date, min_revenue, max_revenue,
          min_net_income, max_net_income, sort_by,
          response

vars == <<pc, args, upstream, start_date, end_date, min_revenue, max_revenue,
          min_net_income, max_net_income, sort_by, response>>

(***************************************************************************)
(* Bounds of the model.                                                    *)
(***************************************************************************)
\* A request is explored when  Len(upstream items) + number of query
\* parameters supplied  is at most MaxWork.
MaxWork == 4

\* Field values of the records of a well-formed upstream body.
Vals == {-1, 1}
\* Field values of the one record that is filtered under every combination
\* of the six bounds.
WideVals == {-1, 0, 1}
\* Value of the fields present in a record that may lack fields.
PartialVals == {0}

Fields == {"date", "revenue", "netIncome"}

(***************************************************************************)
(* Python values: None, numbers, and the float nan.                        *)
(***************************************************************************)
None == [isNone |-> TRUE, nan |-> FALSE, v |-> 0]
Some(n) == [isNone |-> FALSE, nan |-> FALSE, v |-> n]
NaN == [isNone |-> FALSE, nan |-> TRUE, v |-> 0]

\* Mutant of Truthy: the test `is not None`, under which a zero bound counts.
TruthyNotNone(b) == ~b.isNone

\* Python truthiness of None / int / float, as used by `if start_date and ...`:
\* None and zero are falsy; nan is truthy.
Truthy(b) == ~b.isNone /\ (b.nan \/ b.v # 0)

\* x < b and x > b for a number x and a bound b: every comparison with nan
\* is False.
Below(x, b) == ~b.nan /\ x < b.v
Above(x, b) == ~b.nan /\ x > b.v

(***************************************************************************)
(* Query strings.  request.args is a mapping from the supplied parameter   *)
(* names to their raw text.                                                *)
(***************************************************************************)
IntParams == {"startDate", "endDate"}
FloatParams == {"minRevenue", "maxRevenue", "minNetIncome", "maxNetIncome"}
BoundParams == IntParams \cup FloatParams
Params == BoundParams \cup {"sortBy"}

\* Raw texts tried for a bound: numbers in the well-formed requests; texts
\* that int() or float() rejects, and a number, in the faulty ones.
BoundTokens == {"-1", "0", "1"}
FaultyTokens == {"abc", "1.0", "1"}
\* The text float() reads as nan; int() rejects it.
NanToken == "nan"
\* Raw texts tried for sortBy.
SortTokens == {"date", "revenue", "netIncome", "", "Date"}

Literal(s) == CASE s = "-1" -> -1
                [] s = "0" -> 0
                [] s = "1" -> 1
                [] s = "1.0" -> 1

\* int(text): raises ValueError unless the text is an integer literal.
IntAccepts(s) == s \in {"-1", "0", "1"}
\* float(text): accepts integer and decimal literals.
FloatAccepts(s) == s \in {"-1", "0", "1", "1.0", NanToken}

\* request.args.get(name, type=int): a missing key or a ValueError in the
\* conversion yields the default, None.
GetInt(a, name) ==
    IF name \notin DOMAIN a THEN None
    ELSE IF IntAccepts(a[name]) THEN Some(Literal(a[name])) ELSE None

\* request.args.get(name, type=float)
GetFloat(a, name) ==
    IF name \notin DOMAIN a THEN None
    ELSE IF a[name] = NanToken THEN NaN
    ELSE IF FloatAccepts(a[name]) THEN Some(Literal(a[name])) ELSE None

\* request.args.get("sortBy", default="date", type=str)
GetSortBy(a) == IF "sortBy" \in DOMAIN a THEN a["sortBy"] ELSE "date"

(***************************************************************************)
(* filter_data.  An item is a mapping; reading a key it lacks raises.      *)
(* The result of filtering one item is "keep", "skip" (continue) or        *)
(* "raise"; the six conditions are evaluated in the order of the code,     *)
(* each short-circuited by the truthiness of its bound.                    *)
(***************************************************************************)
Has(item, f) == f \in DOMAIN item

\* Mutant of FilterItem: the lower date bound made exclusive (<= for <).
FilterItemExclusive(item, sd, ed, minr, maxr, minn, maxn) ==
    IF Truthy(sd) /\ ~Has(item, "date") THEN "raise"
    ELSE IF Truthy(sd) /\ (Below(item["date"], sd) \/ item["date"] = sd.v) THEN "skip"
    ELSE IF Truthy(ed) /\ ~Has(item, "date") THEN "raise"
    ELSE IF Truthy(ed) /\ Above(item["date"], ed) THEN "skip"
    ELSE IF Truthy(minr) /\ ~Has(item, "revenue") THEN "raise"
    ELSE IF Truthy(minr) /\ Below(item["revenue"], minr) THEN "skip"
    ELSE IF Truthy(maxr) /\ ~Has(item, "revenue") THEN "raise"
    ELSE IF Truthy(maxr) /\ Above(item["revenue"], maxr) THEN "skip"
    ELSE IF Truthy(minn) /\ ~Has(item, "netIncome") THEN "raise"
    ELSE IF Truthy(minn) /\ Below(item["netIncome"], minn) THEN "skip"
    ELSE IF Truthy(maxn) /\ ~Has(item, "netIncome") THEN "raise"
    ELSE IF Truthy(maxn) /\ Above(item["netIncome"], maxn) THEN "skip"
    ELSE "keep"

\* Mutant of FilterItem: the three fields are read at the top of the loop
\* body, before any bound is looked at.
FilterItemEager(item, sd, ed, minr, maxr, minn, maxn) ==
    IF ~Has(item, "date") \/ ~Has(item, "revenue") \/ ~Has(item, "netIncome") THEN "raise"
    ELSE IF Truthy(sd) /\ Below(item["date"], sd) THEN "skip"
    ELSE IF Truthy(ed) /\ Above(item["date"], ed) THEN "skip"
    ELSE IF Truthy(minr) /\ Below(item["revenue"], minr) THEN "skip"
    ELSE IF Truthy(maxr) /\ Above(item["revenue"], maxr) THEN "skip"
    ELSE IF Truthy(minn) /\ Below(item["netIncome"], minn) THEN "skip"
    ELSE IF Truthy(maxn) /\ Above(item["netIncome"], maxn) THEN "skip"
    ELSE "keep"

FilterItem(item, sd, ed, minr, maxr, minn, maxn) ==
    IF Truthy(sd) /\ ~Has(item, "date") THEN "raise"
    ELSE IF Truthy(sd) /\ Below(item["date"], sd) THEN "skip"
    ELSE IF Truthy(ed) /\ ~Has(item, "date") THEN "raise"
    ELSE IF Truthy(ed) /\ Above(item["date"], ed) THEN "skip"
    ELSE IF Truthy(minr) /\ ~Has(item, "revenue") THEN "raise"
    ELSE IF Truthy(minr) /\ Below(item["revenue"], minr) THEN "skip"
    ELSE IF Truthy(maxr) /\ ~Has(item, "revenue") THEN "raise"
    ELSE IF Truthy(maxr) /\ Above(item["revenue"], maxr) THEN "skip"
    ELSE IF Truthy(minn) /\ ~Has(item, "netIncome") THEN "raise"
    ELSE IF Truthy(minn) /\ Below(item["netIncome"], minn) THEN "skip"
    ELSE IF Truthy(maxn) /\ ~Has(item, "netIncome") THEN "raise"
    ELSE IF Truthy(maxn) /\ Above(item["netIncome"], maxn) THEN "skip"
    ELSE "keep"

\* filter_data(data, ...): [raised, items].  The loop appends the kept items
\* in the order of data; an exception abandons the list.
filter_data(data, sd, ed, minr, maxr, minn, maxn) ==
    LET Res(i) == FilterItem(data[i], sd, ed, minr, maxr, minn, maxn)
        F[i \in 0..Len(data)] ==
            IF i = 0 THEN <<>>
            ELSE IF Res(i) = "keep" THEN Append(F[i-1], data[i]) ELSE F[i-1]
    IN IF \E i \in 1..Len(data) : Res(i) = "raise"
       THEN [raised |-> TRUE, items |-> <<>>]
       ELSE [raised |-> FALSE, items |-> F[Len(data)]]

(***************************************************************************)
(* sorted(xs, key=lambda x: x[k], reverse=True): a stable sort, descending *)
(* by the key; items with equal keys keep their order in xs.               *)
(***************************************************************************)
\* Mutant of InsertDesc: ascending order (reverse=True forgotten).
InsertAsc(s, x, k) ==
    LET n == Cardinality({i \in 1..Len(s) : s[i][k] <= x[k]})
    IN SubSeq(s, 1, n) \o <<x>> \o SubSeq(s, n + 1, Len(s))

\* Mutant of InsertDesc: x goes before the elements with an equal key, as
\* when an ascending sort is reversed (sorted(...)[::-1]).
InsertDescBefore(s, x, k) ==
    LET n == Cardinality({i \in 1..Len(s) : s[i][k] > x[k]})
    IN SubSeq(s, 1, n) \o <<x>> \o SubSeq(s, n + 1, Len(s))

\* Insert x into a descending sequence, after every element whose key is
\* greater than or equal to x's.
InsertDesc(s, x, k) ==
    LET n == Cardinality({i \in 1..Len(s) : s[i][k] >= x[k]})
    IN SubSeq(s, 1, n) \o <<x>> \o SubSeq(s, n + 1, Len(s))

sorted_desc(xs, k) ==
    LET S[i \in 0..Len(xs)] ==
            IF i = 0 THEN <<>> ELSE InsertDesc(S[i-1], xs[i], k)
    IN IF \E i \in 1..Len(xs) : ~Has(xs[i], k)
       THEN [raised |-> TRUE, items |-> <<>>]
       ELSE [raised |-> FALSE, items |-> S[Len(xs)]]

\* Mutant of SortStep: an unrecognised sort_by falls back to the date order.
SortStepFallback(xs, sb) ==
    IF sb = "revenue" THEN sorted_desc(xs, "revenue")
    ELSE IF sb = "netIncome" THEN sorted_desc(xs, "netIncome")
    ELSE sorted_desc(xs, "date")

\* The if / elif chain on sort_by; any other value leaves the list as it is.
SortStep(xs, sb) ==
    IF sb = "date" THEN sorted_desc(xs, "date")
    ELSE IF sb = "revenue" THEN sorted_desc(xs, "revenue")
    ELSE IF sb = "netIncome" THEN sorted_desc(xs, "netIncome")
    ELSE [raised |-> FALSE, items |-> xs]

(***************************************************************************)
(* Upstream outcomes and responses.                                        *)
(***************************************************************************)
\* requests.get / raise_for_status / response.json raise a
\* RequestException: no connection, a non-success status, a body that is
\* not JSON (requests.exceptions.JSONDecodeError is a RequestException).
RequestExceptions == {"ConnectionError", "HTTPError", "JSONDecodeError"}

\* A parsed body is a JSON array ("list": items are its elements), a JSON
\* object ("object": iterating it yields its keys) or a JSON string
\* ("string": iterating it yields its characters); keys and characters are
\* strings, which have none of the fields.  A number, null, true or false
\* ("noniterable") cannot be iterated.
Failure(e) == [kind |-> e, items |-> <<>>]
Body(kind, items) == [kind |-> kind, items |-> items]

\* Mutant of IsRequestException: raise_for_status() left out, so a
\* non-success status is not an error.
IsRequestExceptionNoStatus(u) == u.kind \in {"ConnectionError", "JSONDecodeError"}

IsRequestException(u) == u.kind \in RequestExceptions

\* jsonify({"error": str(e)}), 500
ErrorResponse(u) == [status |-> 500, kind |-> "error", error |-> u.kind, items |-> <<>>]
\* jsonify(filtered_data)
OkResponse(items) == [status |-> 200, kind |-> "array", error |-> "", items |-> items]
\* An exception that leaves the view: the framework answers 500 with its
\* own error page.
Unhandled == [status |-> 500, kind |-> "html", error |-> "", items |-> <<>>]
NoResponse == [status |-> 0, kind |-> "none", error |-> "", items |-> <<>>]

\* `for item in data` raises TypeError unless data is a list, dict or str.
Iterable(u) == u.kind \in {"list", "object", "string"}

\* Lines 46-57 of the handler, on parsed data and parsed parameters.
Transform(u, sd, ed, minr, maxr, minn, maxn, sb) ==
    IF ~Iterable(u) THEN Unhandled
    ELSE LET f == filter_data(u.items, sd, ed, minr, maxr, minn, maxn)
         IN IF f.raised THEN Unhandled
            ELSE LET s == SortStep(f.items, sb)
                 IN IF s.raised THEN Unhandled ELSE OkResponse(s.items)

\* The response of the handler to query string a when upstream yields u.
Respond(a, u) ==
    IF IsRequestException(u) THEN ErrorResponse(u)
    ELSE Transform(u, GetInt(a, "startDate"), GetInt(a, "endDate"),
                   GetFloat(a, "minRevenue"), GetFloat(a, "maxRevenue"),
                   GetFloat(a, "minNetIncome"), GetFloat(a, "maxNetIncome"),
                   GetSortBy(a))

(***************************************************************************)
(* Inputs explored.                                                        *)
(***************************************************************************)
\* Query strings supplying at most k parameters, the bounds drawn from tokens.
ArgsUpTo(k, tokens) ==
    UNION {{a \in [S -> tokens \cup SortTokens] :
              \A p \in S : a[p] \in (IF p = "sortBy" THEN SortTokens ELSE tokens)} :
           S \in {T \in SUBSET Params : Cardinality(T) <= k}}

\* Upstream-order position, carried by every item as the field "id"; it
\* stands for the provider's other fields, which are passed through unread.
WithIds(shapes) == [i \in 1..Len(shapes) |-> shapes[i] @@ ("id" :> i)]

Tuples(S, n) == [1..n -> S]

\* Records carrying date, revenue and netIncome.
CompleteShapes == [Fields -> Vals]
\* The same over the wider values.
WideShapes == [Fields -> WideVals]

\* Query strings supplying any of the six bounds: a number, or nan for the
\* float bounds.
FilterArgs ==
    UNION {{a \in [S -> BoundTokens \cup {NanToken}] :
              \A p \in S \cap IntParams : a[p] # NanToken} :
           S \in SUBSET BoundParams}
\* Records that may lack fields.
PartialShapes == UNION {[S -> PartialVals] : S \in SUBSET Fields}
\* A key of a JSON object or a character of a JSON string: a string, which
\* has none of the fields.
KeyShape == <<>>

Init ==
    /\ pc = "idle"
    /\ args = <<>>
    /\ upstream = Body("none", <<>>)
    /\ start_date = None
    /\ end_date = None
    /\ min_revenue = None
    /\ max_revenue = None
    /\ min_net_income = None
    /\ max_net_income = None
    /\ sort_by = "date"
    /\ response = NoResponse

\* A request with query string a reaches the view, which calls
\* requests.get and waits for the upstream answer.
Arrive(a) ==
    /\ pc' = "waiting"
    /\ args' = a
    /\ UNCHANGED <<upstream, start_date, end_date, min_revenue, max_revenue,
                   min_net_income, max_net_income, sort_by, response>>

\* The upstream call ends with outcome u and the rest of fetch_data runs.
fetch_data(u) ==
    /\ pc' = "done"
    /\ upstream' = u
    /\ response' = Respond(args, u)
    /\ IF IsRequestException(u)
       THEN UNCHANGED <<start_date, end_date, min_revenue, max_revenue,
                        min_net_income, max_net_income, sort_by>>
       ELSE /\ start_date' = GetInt(args, "startDate")
            /\ end_date' = GetInt(args, "endDate")
            /\ min_revenue' = GetFloat(args, "minRevenue")
            /\ max_revenue' = GetFloat(args, "maxRevenue")
            /\ min_net_income' = GetFloat(args, "minNetIncome")
            /\ max_net_income' = GetFloat(args, "maxNetIncome")
            /\ sort_by' = GetSortBy(args)
    /\ UNCHANGED args

\* The upstream items still within the bound, given the query string.
Room == MaxWork - Cardinality(DOMAIN args)

\* A request with well-formed bounds arrives.
Request ==
    /\ pc = "idle"
    /\ \E a \in ArgsUpTo(MaxWork, BoundTokens) : Arrive(a)

\* Upstream answers with an array of complete records.
Answer ==
    /\ pc = "waiting"
    /\ \E n \in 0..Room :
         \E shapes \in Tuples(CompleteShapes, n) :
           fetch_data(Body("list", WithIds(shapes)))

\* A request with any combination of the six bounds arrives.
RequestFilter ==
    /\ pc = "idle"
    /\ \E a \in FilterArgs \cup ArgsUpTo(MaxWork, BoundTokens) : Arrive(a)

\* Upstream answers with an array of one complete record.
AnswerOne ==
    /\ pc = "waiting"
    /\ \E shape \in WideShapes : fetch_data(Body("list", WithIds(<<shape>>)))

\* Faulty upstream outcomes with n items: the call fails, or its body is
\* not iterable, a string, an object, or an array of records that may lack
\* fields.
FaultyUpstreams(n) ==
    {Body("list", WithIds(s)) : s \in Tuples(PartialShapes, n)}
      \cup {Body(k, WithIds(s)) : k \in {"object", "string"}, s \in Tuples({KeyShape}, n)}
      \cup (IF n = 0 THEN {Failure(e) : e \in RequestExceptions} \cup {Body("noniterable", <<>>)}
            ELSE {})

\* A request whose bounds may be malformed arrives.
RequestFaulty ==
    /\ pc = "idle"
    /\ \E a \in ArgsUpTo(MaxWork, FaultyTokens) : Arrive(a)

\* Upstream fails or answers with a faulty body.
AnswerFaulty ==
    /\ pc = "waiting"
    /\ \E n \in 0..Room :
         \E u \in FaultyUpstreams(n) :
           fetch_data(u)

\* The response is sent; the handler's locals are gone.
Finish ==
    /\ pc = "done"
    /\ pc' = "idle"
    /\ args' = <<>>
    /\ upstream' = Body("none", <<>>)
    /\ start_date' = None
    /\ end_date' = None
    /\ min_revenue' = None
    /\ max_revenue' = None
    /\ min_net_income' = None
    /\ max_net_income' = None
    /\ sort_by' = "date"
    /\ response' = NoResponse

Next == Request \/ Answer \/ Finish
NextFaulty == RequestFaulty \/ AnswerFaulty \/ Finish
NextFilter == RequestFilter \/ Answer \/ AnswerOne \/ Finish

Spec == Init /\ [][Next]_vars
SpecFaulty == Init /\ [][NextFaulty]_vars
SpecFilter == Init /\ [][NextFilter]_vars

(***************************************************************************)
(* Vocabulary of the properties.                                           *)
(***************************************************************************)
Done == pc = "done"
Ok == Done /\ response.status = 200
Up == upstream.items
Out == response.items

Ids(seq) == {seq[i]["id"] : i \in 1..Len(seq)}
InOut(r) == \E j \in 1..Len(Out) : Out[j] = r

\* A bound is enforced when it was given and is a number other than zero.
Enforced(b) == ~b.isNone /\ ~b.nan /\ b.v # 0

\* The six bounds in the order of the code: the local holding the bound, the
\* field it bounds, and whether it is a lower bound.
Checks ==
    << [b |-> start_date,     f |-> "date",      lower |-> TRUE],
       [b |-> end_date,       f |-> "date",      lower |-> FALSE],
       [b |-> min_revenue,    f |-> "revenue",   lower |-> TRUE],
       [b |-> max_revenue,    f |-> "revenue",   lower |-> FALSE],
       [b |-> min_net_income, f |-> "netIncome", lower |-> TRUE],
       [b |-> max_net_income, f |-> "netIncome", lower |-> FALSE] >>

\* Record r carries the field of check c and is on the wrong side of it.
WrongSide(r, c) ==
    /\ Enforced(c.b)
    /\ c.f \in DOMAIN r
    /\ IF c.lower THEN r[c.f] < c.b.v ELSE r[c.f] > c.b.v

\* r satisfies every enforced bound (inclusive).
Within(r) ==
    \A k \in 1..6 :
        Enforced(Checks[k].b) =>
            IF Checks[k].lower THEN r[Checks[k].f] >= Checks[k].b.v
            ELSE r[Checks[k].f] <= Checks[k].b.v

Excluded(r) == \E k \in 1..6 : WrongSide(r, Checks[k])

\* C1 as stated: a successful response contains a record iff the record
\* satisfies every bound that is given and not zero (nan is not zero, and no
\* value is >= or <= nan), the bounds being inclusive, and it contains
\* nothing that is not an upstream record.
GivenNonZero(b) == ~b.isNone /\ (b.nan \/ b.v # 0)

Satisfies(r, c) ==
    /\ ~c.b.nan
    /\ IF c.lower THEN r[c.f] >= c.b.v ELSE r[c.f] <= c.b.v

C1_AsStated ==
    Ok => /\ \A i \in 1..Len(Up) :
               InOut(Up[i]) <=>
                   \A k \in 1..6 : GivenNonZero(Checks[k].b) => Satisfies(Up[i], Checks[k])
          /\ \A j \in 1..Len(Out) : \E i \in 1..Len(Up) : Up[i] = Out[j]

\* C1 amended: a successful response contains a record iff the record
\* satisfies every bound that is given and is a number other than zero, the
\* bounds being inclusive (a nan bound excludes nothing), and it contains
\* nothing that is not an upstream record.
C1_FilterExact ==
    Ok => /\ \A i \in 1..Len(Up) : InOut(Up[i]) <=> Within(Up[i])
          /\ \A j \in 1..Len(Out) : \E i \in 1..Len(Up) : Up[i] = Out[j]

\* All six bounds are enforced on one record, which lies exactly on five of
\* them or inside, and is dropped for being one unit below startDate.
C1_Witness ==
    /\ Ok
    /\ Len(Up) = 1
    /\ \A k \in 1..6 : Enforced(Checks[k].b)
    /\ Up[1]["date"] = start_date.v - 1
    /\ Up[1]["revenue"] = max_revenue.v
    /\ Up[1]["netIncome"] = min_net_income.v
    /\ \A k \in 2..6 : ~WrongSide(Up[1], Checks[k])
    /\ ~InOut(Up[1])

\* The query string without parameter p.
Without(a, p) == [q \in DOMAIN a \ {p} |-> a[q]]

\* C2: a bound supplied as 0 gives the response of the same request without
\* that bound, and every non-zero bound, negative ones too, is enforced: no
\* record on its wrong side is in the response.
C2_ZeroBoundIgnored ==
    Done => /\ \A p \in BoundParams \cap DOMAIN args :
                 args[p] = "0" => response = Respond(Without(args, p), upstream)
            /\ \A k \in 1..6 : \A j \in 1..Len(Out) : ~WrongSide(Out[j], Checks[k])

\* minRevenue=0 with a record of negative revenue, which is kept.
C2_Witness ==
    /\ Ok
    /\ "minRevenue" \in DOMAIN args /\ args["minRevenue"] = "0"
    /\ \E j \in 1..Len(Out) : Out[j]["revenue"] < 0

\* C3 as stated: adjacent records of a sorted response are strictly
\* descending in the sort field.
C3_StrictlyDescending ==
    Ok /\ sort_by \in Fields =>
        \A j \in 1..Len(Out) - 1 : Out[j][sort_by] > Out[j+1][sort_by]

\* C3 amended: adjacent records of a sorted response are descending in the
\* sort field, equal values allowed.
C3_Descending ==
    Ok /\ sort_by \in Fields =>
        \A j \in 1..Len(Out) - 1 : Out[j][sort_by] >= Out[j+1][sort_by]

\* sortBy=revenue moved the second upstream record in front of the first.
C3_Witness ==
    /\ Ok
    /\ "sortBy" \in DOMAIN args /\ sort_by = "revenue"
    /\ Len(Out) = 2
    /\ Out[1]["id"] = 2 /\ Out[1]["revenue"] > Out[2]["revenue"]

\* C5: a request with a bound that does not parse as its type is answered
\* with a client error (4xx); stated for the requests whose upstream call
\* returned an array, so that a failed upstream call is not what decides
\* the status.
Malformed(p) ==
    /\ p \in DOMAIN args
    /\ IF p \in IntParams THEN ~IntAccepts(args[p]) ELSE ~FloatAccepts(args[p])

C5_MalformedIsClientError ==
    Done /\ upstream.kind = "list" /\ (\E p \in BoundParams : Malformed(p)) =>
        response.status \in 400..499

\* C7: with a sortBy other than date, revenue and netIncome the response is
\* the upstream sequence restricted to the records passing the filter, in
\* upstream order.
C7_UnknownKeyKeepsOrder ==
    Ok /\ sort_by \notin Fields => Out = SelectSeq(Up, Within)

\* sortBy=Date leaves two records in ascending date order.
C7_Witness ==
    /\ Ok
    /\ sort_by = "Date"
    /\ Len(Out) = 2
    /\ Out[1]["date"] < Out[2]["date"]

\* C8: the sort is stable and loses nothing: records with equal sort values
\* keep their upstream order, and the response holds each record that passes
\* the filter exactly once.
C8_StableSort ==
    Ok /\ sort_by \in Fields =>
        /\ \A i, j \in 1..Len(Out) :
               i < j /\ Out[i][sort_by] = Out[j][sort_by] => Out[i]["id"] < Out[j]["id"]
        /\ Ids(Out) = {Up[i]["id"] : i \in {n \in 1..Len(Up) : Within(Up[n])}}
        /\ Cardinality(Ids(Out)) = Len(Out)

\* Three records sorted by date: the last upstream record comes first and
\* the two with equal dates follow in upstream order.
C8_Witness ==
    /\ Ok
    /\ sort_by = "date"
    /\ Len(Out) = 3
    /\ Out[1]["id"] = 3
    /\ Out[2]["date"] = Out[3]["date"]
    /\ Out[2]["id"] = 1

\* C9: filtering and sorting the response again, with the same bounds and
\* sort key, gives the response.
C9_Idempotent ==
    Ok => Transform(Body("list", Out), start_date, end_date, min_revenue,
                    max_revenue, min_net_income, max_net_income, sort_by) = response

\* A bound dropped one of three records and the sort exchanged the other two.
C9_Witness ==
    /\ Ok
    /\ Len(Up) = 3
    /\ Len(Out) = 2
    /\ Out[1]["id"] > Out[2]["id"]

\* The records a complete response holds: those no enforced bound excludes.
KeptIds == {Up[i]["id"] : i \in {n \in 1..Len(Up) : ~Excluded(Up[n])}}

\* C4: when the upstream call fails (no connection, non-success status) the
\* response is 500 with a JSON error object and no records, whatever the
\* query string; and every response is either the complete set of records
\* that pass the filter, or an error with no records.
C4_FailureOrComplete ==
    Done =>
        /\ upstream.kind \in {"ConnectionError", "HTTPError"} =>
               response.status = 500 /\ response.kind = "error" /\ Out = <<>>
        /\ \/ /\ response.status = 200
              /\ Ids(Out) = KeptIds
              /\ Len(Out) = Cardinality(KeptIds)
           \/ response.status = 500 /\ Out = <<>>

\* A non-success upstream status under a query string with a malformed bound.
C4_Witness ==
    /\ Done
    /\ upstream.kind = "HTTPError"
    /\ \E p \in BoundParams : Malformed(p)
    /\ response.status = 500 /\ response.kind = "error"

\* C6: a success status with a body that is not JSON, or JSON that is not an
\* array of records, is answered 500 with a JSON error object.
C6_BadShapeIsUpstreamError ==
    Done /\ upstream.kind \in {"JSONDecodeError", "object", "string", "noniterable"} =>
        response.status = 500 /\ response.kind = "error"

\* Check k reads a field r lacks, no earlier check having excluded r.
ReadsMissingAt(r, k) ==
    /\ Enforced(Checks[k].b)
    /\ Checks[k].f \notin DOMAIN r
    /\ \A j \in 1..(k - 1) : ~WrongSide(r, Checks[j])

FilterReadsMissing == \E i \in 1..Len(Up) : \E k \in 1..6 : ReadsMissingAt(Up[i], k)

SortReadsMissing ==
    /\ sort_by \in Fields
    /\ \E i \in 1..Len(Up) : ~Excluded(Up[i]) /\ sort_by \notin DOMAIN Up[i]

\* C10: with an array of records that may lack fields, the request fails
\* exactly when a missing field is read: by a check whose bound is enforced,
\* on a record no earlier check excluded, or by the sort, on a record that
\* passed the filter.  A failed request returns no records; any other
\* request is answered 200 with the records no enforced bound excludes.
C10_MissingFieldReadOnly ==
    Done /\ upstream.kind = "list" =>
        IF FilterReadsMissing \/ SortReadsMissing
        THEN response.status = 500 /\ Out = <<>>
        ELSE /\ response.status = 200
             /\ Ids(Out) = KeptIds
             /\ Len(Out) = Cardinality(KeptIds)

\* A record without revenue under an enforced minRevenue, answered 200
\* because startDate excluded the record first.
C10_Witness ==
    /\ Ok
    /\ upstream.kind = "list" /\ Len(Up) = 1
    /\ "revenue" \notin DOMAIN Up[1]
    /\ Enforced(min_revenue)
    /\ WrongSide(Up[1], Checks[1])

====
